---- MODULE Spec2Model ----
(***************************************************************************)
(* Model of the CSV importers of friend_of_restaurant:                     *)
(*   script/db_connection.py              parse_decimal, get_connection    *)
(*   script/import/import_product_list.py product / product_price import   *)
(*   script/import/import_bill.py         bill / bill_item import          *)
(*                                                                         *)
(* Text is a sequence of one-character strings.  Python's None is the      *)
(* one-element sequence None below (no text of the alphabet equals it).    *)
(* A Decimal is a record [k, v]: k = "fin" with the integer v, k = "inf"   *)
(* with the sign v, k = "nan", or k = "none" for Python's None.            *)
(***************************************************************************)
EXTENDS Integers, Sequences, FiniteSets, Bags, TLC

\* ---------------------------------------------------------------- bounds
MaxRows == 2
MaxItems == 2
MaxBills == 2
MaxClock == 3

\* ------------------------------------------------------------------ text
None == <<"None">>

Digits == {"0", "1", "2", "3", "4", "5", "6", "7", "8", "9"}

DigitVal(c) ==
  CASE c = "0" -> 0 [] c = "1" -> 1 [] c = "2" -> 2 [] c = "3" -> 3
    [] c = "4" -> 4 [] c = "5" -> 5 [] c = "6" -> 6 [] c = "7" -> 7
    [] c = "8" -> 8 [] c = "9" -> 9

RECURSIVE LStrip(_)
LStrip(s) == IF s # <<>> /\ Head(s) = " " THEN LStrip(Tail(s)) ELSE s

RECURSIVE RStrip(_)
RStrip(s) ==
  IF s # <<>> /\ s[Len(s)] = " " THEN RStrip(SubSeq(s, 1, Len(s) - 1)) ELSE s

\* str.strip()
Strip(s) == RStrip(LStrip(s))

IsComma(c) == c = ","
NotComma(c) == ~IsComma(c)

\* str.replace(",", "")
RemoveCommas(s) == SelectSeq(s, NotComma)

AllDigits(s) == \A i \in 1..Len(s) : s[i] \in Digits

RECURSIVE DigitsVal(_)
DigitsVal(s) ==
  IF s = <<>> THEN 0
  ELSE 10 * DigitsVal(SubSeq(s, 1, Len(s) - 1)) + DigitVal(s[Len(s)])

\* --------------------------------------------------------------- Decimal
Fin(n) == [k |-> "fin", v |-> n]
Inf(sgn) == [k |-> "inf", v |-> sgn]
NaN == [k |-> "nan", v |-> 0]
NoneDec == [k |-> "none", v |-> 0]
\* the outcome of an operation that raises decimal.InvalidOperation
Raised == [k |-> "raise", v |-> 0]

HasSign(t) == t # <<>> /\ Head(t) \in {"-", "+"}
SignOf(t) == IF t # <<>> /\ Head(t) = "-" THEN -1 ELSE 1
Unsigned(t) == IF HasSign(t) THEN Tail(t) ELSE t

IsNumeral(b) == b # <<>> /\ AllDigits(b)
IsInfinity(b) == b = <<"i", "n", "f">>
IsNaN(b) ==
  /\ Len(b) >= 3
  /\ SubSeq(b, 1, 3) = <<"n", "a", "n">>
  /\ AllDigits(SubSeq(b, 4, Len(b)))

\* Decimal(text): the constructor strips the text, then accepts a signed
\* numeral, a signed infinity or a signed NaN with optional payload digits;
\* anything else raises InvalidOperation.
DecimalValid(s) ==
  LET b == Unsigned(Strip(s)) IN IsNumeral(b) \/ IsInfinity(b) \/ IsNaN(b)

Decimal(s) ==
  LET t == Strip(s)
      b == Unsigned(t)
  IN  IF IsNumeral(b) THEN Fin(SignOf(t) * DigitsVal(b))
      ELSE IF IsInfinity(b) THEN Inf(SignOf(t))
      ELSE IF IsNaN(b) THEN NaN
      ELSE Raised

\* a * b of decimal under the default context (InvalidOperation trapped)
DecMul(a, b) ==
  IF a.k = "nan" \/ b.k = "nan" THEN NaN
  ELSE IF a.k = "inf" /\ b.k = "inf" THEN Inf(a.v * b.v)
  ELSE IF a.k = "inf" THEN
         (IF b.v = 0 THEN Raised ELSE Inf(IF b.v < 0 THEN -a.v ELSE a.v))
  ELSE IF b.k = "inf" THEN
         (IF a.v = 0 THEN Raised ELSE Inf(IF a.v < 0 THEN -b.v ELSE b.v))
  ELSE Fin(a.v * b.v)

\* a + b of decimal under the default context
DecAdd(a, b) ==
  IF a.k = "nan" \/ b.k = "nan" THEN NaN
  ELSE IF a.k = "inf" /\ b.k = "inf" THEN (IF a.v = b.v THEN a ELSE Raised)
  ELSE IF a.k = "inf" THEN a
  ELSE IF b.k = "inf" THEN b
  ELSE Fin(a.v + b.v)

\* a != b of decimal: a NaN is unequal to everything
DecNe(a, b) == a.k = "nan" \/ b.k = "nan" \/ a # b

\* db_connection.parse_decimal: InvalidOperation is caught and answered
\* with the default
parse_decimal(value, default) ==
  IF value = None \/ value = <<>> THEN default
  ELSE LET cleaned == RemoveCommas(Strip(value))
       IN  IF cleaned # <<>>
           THEN (IF DecimalValid(cleaned) THEN Decimal(cleaned) ELSE default)
           ELSE default

\* ------------------------------------------------------- the store's tables
\* product(product_id PK, product_name, source, unit): a set of rows
\* product_price(product_id, cost_per_unit, created_when): a bag of rows, so
\* that two rows with one (product_id, created_when) are representable
\* bill(bill_id generated, ...): a set of rows; bill_item: a bag of rows
EmptyStore ==
  [product |-> {}, product_price |-> EmptyBag, bill |-> {}, bill_item |-> EmptyBag]

RECURSIVE SumCopies(_, _)
SumCopies(b, S) ==
  IF S = {} THEN 0
  ELSE LET r == CHOOSE x \in S : TRUE IN b[r] + SumCopies(b, S \ {r})

\* the rows of product_price WHERE product_id = pid
PriceRows(tbl, pid) == {r \in BagToSet(tbl) : r.product_id = pid}

\* the rows of product_price WHERE product_id = pid AND created_when = ts
PriceRowsAt(tbl, pid, ts) == {r \in PriceRows(tbl, pid) : r.created_when = ts}

\* SELECT count(*) FROM product_price WHERE product_id = pid
HistoryLength(tbl, pid) == SumCopies(tbl, PriceRows(tbl, pid))

\* SELECT count(*) ... WHERE product_id = pid AND created_when = ts
CountAt(tbl, pid, ts) == SumCopies(tbl, PriceRowsAt(tbl, pid, ts))

PriceRow(pid, cost, ts) ==
  [product_id |-> pid, cost_per_unit |-> cost, created_when |-> ts]

\* INSERT INTO dbo.product_price VALUES (pid, cost, ts)
SqlInsertPrice(tbl, pid, cost, ts) == tbl (+) SetToBag({PriceRow(pid, cost, ts)})

\* UPDATE product_price SET cost_per_unit = cost WHERE product_id = pid AND
\* created_when = ts: every matching row takes the cost
SqlUpdatePrice(tbl, pid, cost, ts) ==
  LET hit == PriceRowsAt(tbl, pid, ts)
      n == SumCopies(tbl, hit)
      rest == [r \in BagToSet(tbl) \ hit |-> tbl[r]]
  IN  IF n = 0 THEN tbl
      ELSE rest (+) [r \in {PriceRow(pid, cost, ts)} |-> n]

\* import_product_list.upsert_product: INSERT ... ON CONFLICT (product_id) DO
\* UPDATE SET product_name, source, unit
upsert_product_do_nothing(tbl, product_data) ==
  IF \E r \in tbl : r.product_id = product_data.product_id THEN tbl
  ELSE tbl \cup {[product_id |-> product_data.product_id,
                  product_name |-> product_data.product_name,
                  source |-> product_data.source,
                  unit |-> product_data.unit]}

upsert_product(tbl, product_data) ==
  LET new == [product_id |-> product_data.product_id,
              product_name |-> product_data.product_name,
              source |-> product_data.source,
              unit |-> product_data.unit]
  IN  IF \E r \in tbl : r.product_id = new.product_id
      THEN {IF r.product_id = new.product_id THEN new ELSE r : r \in tbl}
      ELSE tbl \cup {new}

get_latest_product_price_oldest(tbl, pid) ==
  LET rows == PriceRows(tbl, pid)
      top == {r \in rows : \A q \in rows : q.created_when >= r.created_when}
  IN  IF rows = {} THEN {NoneDec} ELSE {r.cost_per_unit : r \in top}

\* import_product_list.get_latest_product_price: the costs that ORDER BY
\* created_when DESC LIMIT 1 can return (one of the rows with the greatest
\* timestamp), or None when the product has no price
get_latest_product_price(tbl, pid) ==
  LET rows == PriceRows(tbl, pid)
      top == {r \in rows : \A q \in rows : q.created_when <= r.created_when}
  IN  IF rows = {} THEN {NoneDec} ELSE {r.cost_per_unit : r \in top}

\* the SELECT of insert_product_price and its fetchone(): one of the
\* matching rows' costs, or None
select_existing(tbl, pid, created_when) ==
  LET rows == PriceRowsAt(tbl, pid, created_when)
  IN  IF rows = {} THEN {NoneDec} ELSE {r.cost_per_unit : r \in rows}

\* import_product_list.insert_product_price after its SELECT returned
\* existing: the table afterwards, the value returned and the statement run
insert_product_price_always_insert(tbl, pid, cost_per_unit, created_when, existing) ==
  [tbl |-> SqlInsertPrice(tbl, pid, cost_per_unit, created_when),
   ret |-> TRUE, sql |-> "insert"]

insert_product_price(tbl, pid, cost_per_unit, created_when, existing) ==
  IF existing # NoneDec
  THEN IF DecNe(existing, cost_per_unit)
       THEN [tbl |-> SqlUpdatePrice(tbl, pid, cost_per_unit, created_when),
             ret |-> TRUE, sql |-> "update"]
       ELSE [tbl |-> tbl, ret |-> FALSE, sql |-> "none"]
  ELSE [tbl |-> SqlInsertPrice(tbl, pid, cost_per_unit, created_when),
        ret |-> TRUE, sql |-> "insert"]

\* ------------------------------------------------- the product CSV reader
RequiredProductCols == {"product_id", "product_name"}

\* read_product_csv's header check: no header, or a required column missing
ProductHeaderOk(fieldnames) ==
  fieldnames # {} /\ RequiredProductCols \subseteq fieldnames

\* a DictReader row: a function from the header's columns to text
RowGet(r, key) == IF key \in DOMAIN r THEN r[key] ELSE None

\* value.strip(), and "" becomes None
CleanCell(v) ==
  IF v = None THEN None
  ELSE LET s == Strip(v) IN IF s = <<>> THEN None ELSE s

\* int(text): a signed numeral, surrounding blanks allowed; None and other
\* text raise TypeError / ValueError
IntValid(v) == v # None /\ IsNumeral(Unsigned(Strip(v)))
IntOf(v) == SignOf(Strip(v)) * DigitsVal(Unsigned(Strip(v)))

\* read_product_csv's loop body: whether the row is kept
ProductRowKept(r) == IntValid(CleanCell(RowGet(r, "product_id")))

\* read_product_csv's loop body: the row_data appended for a kept row
\* (source and unit as product_data.get() later reads them)
ProductRowData(r) ==
  LET cost == CleanCell(RowGet(r, "cost_per_unit"))
  IN  [product_id |-> IntOf(CleanCell(RowGet(r, "product_id"))),
       product_name |-> CleanCell(RowGet(r, "product_name")),
       source |-> CleanCell(RowGet(r, "source")),
       unit |-> CleanCell(RowGet(r, "unit")),
       has_cost |-> "cost_per_unit" \in DOMAIN r,
       cost_per_unit |-> IF "cost_per_unit" \in DOMAIN r /\ cost # None
                         THEN parse_decimal(cost, Fin(0))
                         ELSE NoneDec]

\* ------------------------------------------------------------------ state
VARIABLES
  db,               \* the committed contents of the store's four tables
  tx,               \* the tables as the open transaction sees them
  conn,             \* "none", "open" or "closed": the run's connection
  bill_id_seq,      \* the last bill_id the store generated
  pc,               \* the position of the running import
  result,           \* how the last import run ended
  price_timestamp,  \* import_product_csv: price_timestamp
  update_prices,    \* import_product_csv: update_prices
  fieldnames,       \* the CSV header
  rowsLeft,         \* rows of products / prepared_items still to process
  product,          \* import_product_csv: the row being processed
  current_price,    \* import_product_csv: current_price
  price_updated,    \* import_product_csv: price_updated
  report,           \* the line printed for the row's price, "" for none
  products_updated, prices_updated, prices_inserted,
  last,             \* the last statement the run executed
  before,           \* product_price as it was before the last reconciliation
  sql,              \* the statement the last reconciliation ran on the store
  prev,             \* the (product_id, timestamp, cost) this run reconciled last
  repeat,           \* whether the last reconciliation repeated the one before it
  seen,             \* the rows this run upserted last, by product_id
  skipped,          \* whether read_product_csv skipped a row of this run's file
  runs,             \* two import_product_csv runs in two processes, by process
  now,              \* the time datetime.now() returns
  db0,              \* the committed store when the last run began
  items,            \* import_bill: the rows read_bill_csv returned
  shipping_amount,  \* import_bill: shipping_amount
  prepared_items, subtotal, tax_sum, total_amount, bill_id

storeVars == <<db, tx, conn, bill_id_seq, pc, result, fieldnames, rowsLeft, last, db0>>
productVars ==
  <<price_timestamp, update_prices, product, current_price, price_updated, report,
    products_updated, prices_updated, prices_inserted, before, sql, prev, repeat,
    seen, skipped, runs, now>>
billVars ==
  <<items, shipping_amount, prepared_items, subtotal, tax_sum, total_amount, bill_id>>
vars == <<storeVars, productVars, billVars>>

NoProduct ==
  [product_id |-> 0, product_name |-> None, source |-> None, unit |-> None,
   has_cost |-> FALSE, cost_per_unit |-> NoneDec]
NoTriple == [product_id |-> 0, created_when |-> 0, cost_per_unit |-> NoneDec]

\* price_timestamp = None: no timestamp was supplied to the run
NoTimestamp == 0

\* insert_product_price: if created_when is None: created_when =
\* datetime.now(), evaluated in each call
created_when(ts, clock) == IF ts = NoTimestamp THEN clock ELSE ts

\* the processes that run import_product_csv side by side
Procs == {1, 2}

\* a process that has not started its run: no row, nothing looked up,
\* nothing written
NoRun ==
  [pc |-> "idle", product_name |-> None, cost |-> NoneDec, created_when |-> 0,
   current_price |-> NoneDec, existing |-> NoneDec, upserted |-> FALSE,
   op |-> "none", result |-> "none"]

Init ==
  /\ db = EmptyStore /\ tx = EmptyStore /\ conn = "none" /\ bill_id_seq = 0
  /\ pc = "idle" /\ result = "none" /\ fieldnames = {} /\ rowsLeft = 0
  /\ last = "none" /\ db0 = EmptyStore
  /\ price_timestamp = 0 /\ update_prices = TRUE /\ product = NoProduct
  /\ current_price = NoneDec /\ price_updated = FALSE /\ report = ""
  /\ products_updated = 0 /\ prices_updated = 0 /\ prices_inserted = 0
  /\ before = EmptyBag /\ sql = "none" /\ prev = NoTriple /\ repeat = FALSE
  /\ seen = {} /\ skipped = FALSE /\ runs = [p \in Procs |-> NoRun]
  /\ now = 1
  /\ items = <<>> /\ shipping_amount = Fin(0) /\ prepared_items = <<>>
  /\ subtotal = Fin(0) /\ tax_sum = Fin(0) /\ total_amount = Fin(0) /\ bill_id = 0

\* ------------------------------------------------- inputs of product runs
FullProductHeader == {"product_id", "product_name", "source", "unit", "cost_per_unit"}

\* headers that fail the check: none, and one lacking each required column
BadProductHeaders == {{}, {"product_name", "cost_per_unit"}, {"product_id", "unit"}}

\* Runs that exercise the price history: two products, two timestamps, two
\* costs, a blank cost and an invalid product_id.
PriceRuns ==
  [headers |-> BadProductHeaders \cup {FullProductHeader},
   timestamps |-> {1, 2},
   flags |-> {TRUE},
   cells |-> [product_id |-> {<<"1">>, <<" ", "2">>, <<"a">>},
              product_name |-> {<<"a">>},
              source |-> {<<>>},
              unit |-> {<<"k">>},
              cost_per_unit |-> {<<>>, <<"5">>, <<" ", "7">>}]]

\* Runs that exercise the product table: names, sources and units that
\* differ, files with the optional columns (and a cost) and without them.
UpsertRuns ==
  [headers |-> BadProductHeaders \cup {RequiredProductCols, FullProductHeader},
   timestamps |-> {1},
   flags |-> {TRUE},
   cells |-> [product_id |-> {<<"1">>, <<"2">>, <<>>},
              product_name |-> {<<"a">>, <<"b", " ">>},
              source |-> {<<>>, <<"s">>},
              unit |-> {<<"k">>},
              cost_per_unit |-> {<<"5">>}]]

\* Runs whose files hold rows the reader skips: a product_id that is text,
\* a fraction or blank, among rows with and without a cost.
SkipRuns ==
  [headers |-> BadProductHeaders \cup {FullProductHeader},
   timestamps |-> {1},
   flags |-> {TRUE},
   cells |-> [product_id |-> {<<"1">>, <<"2">>, <<"a">>, <<"1", ".", "5">>, <<>>},
              product_name |-> {<<"a">>},
              source |-> {<<>>},
              unit |-> {<<"k">>},
              cost_per_unit |-> {<<>>, <<"5">>}]]

\* Runs whose cost cells carry a sign.
SignedRuns ==
  [headers |-> BadProductHeaders \cup {FullProductHeader},
   timestamps |-> {1, 2},
   flags |-> {TRUE},
   cells |-> [product_id |-> {<<"1">>},
              product_name |-> {<<"a">>},
              source |-> {<<>>},
              unit |-> {<<"k">>},
              cost_per_unit |-> {<<"-", "5">>, <<"+", "5">>, <<"0">>}]]

\* Runs that import_product_csv is given no price_timestamp for.
UntimedRuns ==
  [headers |-> BadProductHeaders \cup {FullProductHeader},
   timestamps |-> {NoTimestamp},
   flags |-> {TRUE},
   cells |-> [product_id |-> {<<"1">>},
              product_name |-> {<<"a">>},
              source |-> {<<>>},
              unit |-> {<<"k">>},
              cost_per_unit |-> {<<"5">>, <<"7">>}]]

\* Runs that exercise the special values Decimal() accepts: a cost cell
\* "nan" beside an ordinary cost, at one timestamp.
SpecialRuns ==
  [headers |-> BadProductHeaders \cup {FullProductHeader},
   timestamps |-> {1},
   flags |-> {TRUE},
   cells |-> [product_id |-> {<<"1">>, <<"2">>},
              product_name |-> {<<"a">>},
              source |-> {<<>>},
              unit |-> {<<"k">>},
              cost_per_unit |-> {<<"n", "a", "n">>, <<"5">>}]]

\* the rows a file with this header can hold
RawProductRows(header, cells) ==
  LET all == UNION {cells[c] : c \in DOMAIN cells}
  IN  {r \in [header -> all] : \A c \in header : r[c] \in cells[c]}

Triple(p, ts) ==
  [product_id |-> p.product_id, created_when |-> ts, cost_per_unit |-> p.cost_per_unit]

\* ------------------------------------------- import_product_csv, by steps
\* read_product_csv raises ValueError on the header: nothing else happens
ImportProductBadHeader(inp) ==
  /\ pc = "idle"
  /\ \E h \in inp.headers : ~ProductHeaderOk(h) /\ fieldnames' = h
  /\ result' = "ValueError"
  /\ last' = "read_product_csv"
  /\ db0' = db
  /\ UNCHANGED <<db, tx, conn, bill_id_seq, pc, rowsLeft>>
  /\ UNCHANGED <<productVars, billVars>>

\* read_product_csv kept no row: "No valid product data found", return
ImportProductNoRows(inp) ==
  /\ pc = "idle"
  /\ \E h \in inp.headers : ProductHeaderOk(h) /\ fieldnames' = h
  /\ result' = "no_data"
  /\ last' = "read_product_csv"
  /\ db0' = db
  /\ UNCHANGED <<db, tx, conn, bill_id_seq, pc, rowsLeft>>
  /\ UNCHANGED <<productVars, billVars>>

\* read_product_csv kept n rows; the run goes on to get_connection
ImportProductBegin(inp) ==
  /\ pc = "idle"
  /\ \E h \in inp.headers, n \in 1..MaxRows, ts \in inp.timestamps, up \in inp.flags :
       /\ ProductHeaderOk(h)
       /\ fieldnames' = h
       /\ rowsLeft' = n
       /\ price_timestamp' = ts
       /\ update_prices' = up
  /\ pc' = "connect"
  /\ result' = "running"
  /\ last' = "read_product_csv"
  /\ db0' = db
  /\ product' = NoProduct /\ current_price' = NoneDec /\ price_updated' = FALSE
  /\ report' = "" /\ before' = EmptyBag /\ sql' = "none" /\ prev' = NoTriple
  /\ repeat' = FALSE /\ seen' = {} /\ skipped' = FALSE
  /\ products_updated' = 0 /\ prices_updated' = 0 /\ prices_inserted' = 0
  /\ UNCHANGED <<db, tx, conn, bill_id_seq, runs, now>>
  /\ UNCHANGED billVars

\* db_connection.get_connection succeeds: a transaction on the committed store
Connect ==
  /\ pc = "connect"
  /\ conn' = "open"
  /\ tx' = db
  /\ pc' = "body"
  /\ last' = "get_connection"
  /\ UNCHANGED <<db, bill_id_seq, result, fieldnames, rowsLeft, db0>>
  /\ UNCHANGED <<productVars, billVars>>

\* psycopg2.connect raises: the error leaves the run before its try block
ConnectFail ==
  /\ pc = "connect"
  /\ pc' = "idle"
  /\ result' = "StoreError"
  /\ last' = "get_connection"
  /\ UNCHANGED <<db, tx, conn, bill_id_seq, fieldnames, rowsLeft, db0>>
  /\ UNCHANGED <<productVars, billVars>>

\* psycopg2.connect succeeded, then SET search_path or its commit raises:
\* get_connection has no handler, the error leaves the run and nothing
\* closes the connection
SearchPathFail ==
  /\ pc = "connect"
  /\ conn' = "open"
  /\ pc' = "idle"
  /\ result' = "StoreError"
  /\ last' = "set_search_path"
  /\ UNCHANGED <<db, tx, bill_id_seq, fieldnames, rowsLeft, db0>>
  /\ UNCHANGED <<productVars, billVars>>

\* for product in products: upsert_product(conn, product)
UpsertRow(inp) ==
  /\ pc = "body" /\ rowsLeft > 0
  /\ \E r \in RawProductRows(fieldnames, inp.cells) :
       /\ ProductRowKept(r)
       /\ product' = ProductRowData(r)
  /\ tx' = [tx EXCEPT !.product = upsert_product(@, product')]
  /\ products_updated' = products_updated + 1
  /\ seen' = {q \in seen : q.product_id # product'.product_id} \cup {product'}
  /\ rowsLeft' = rowsLeft - 1
  /\ pc' = IF update_prices /\ product'.has_cost /\ product'.cost_per_unit # NoneDec
           THEN "price" ELSE "body"
  /\ last' = "upsert_product"
  /\ UNCHANGED <<db, conn, bill_id_seq, result, fieldnames, db0>>
  /\ UNCHANGED <<price_timestamp, update_prices, current_price, price_updated,
                 report, prices_updated, prices_inserted, before, sql, prev, repeat,
                 skipped, runs, now>>
  /\ UNCHANGED billVars

\* what read_product_csv does on a product_id that int() rejects: the
\* except clause warns and continues with the next row
invalid_product_id_raises == "raise"

invalid_product_id == "continue"

\* a row of the file whose product_id is not an integer: skipped by the
\* reader, so the loop over products never sees it
SkipRow(inp) ==
  /\ pc = "body"
  /\ \E r \in RawProductRows(fieldnames, inp.cells) : ~ProductRowKept(r)
  /\ last' = "skip"
  /\ IF invalid_product_id = "continue"
     THEN /\ skipped' = TRUE
          /\ UNCHANGED <<db, tx, conn, pc, result>>
     ELSE /\ skipped' = TRUE
          /\ db' = db /\ tx' = db /\ conn' = "closed"
          /\ pc' = "idle" /\ result' = "ValueError"
  /\ UNCHANGED <<bill_id_seq, fieldnames, rowsLeft, db0>>
  /\ UNCHANGED <<price_timestamp, update_prices, product, current_price,
                 price_updated, report, products_updated, prices_updated,
                 prices_inserted, before, sql, prev, repeat, seen, runs, now>>
  /\ UNCHANGED billVars

\* time passes between two statements of a run
Tick ==
  /\ now < MaxClock
  /\ pc \in {"body", "price"}
  /\ now' = now + 1
  /\ UNCHANGED storeVars
  /\ UNCHANGED <<price_timestamp, update_prices, product, current_price,
                 price_updated, report, products_updated, prices_updated,
                 prices_inserted, before, sql, prev, repeat, seen, skipped, runs>>
  /\ UNCHANGED billVars

\* the gate of the price branch: current_price is None or
\* current_price != new_price
import_price_gate(cur, new_price) == cur = NoneDec \/ DecNe(cur, new_price)

\* the price branch of the loop body: get_latest_product_price, the gate,
\* insert_product_price, the printed line and the counters
ReconcilePrice ==
  /\ pc = "price"
  /\ LET when == created_when(price_timestamp, now)
     IN
     /\ \E cur \in get_latest_product_price(tx.product_price, product.product_id) :
          /\ current_price' = cur
          /\ IF import_price_gate(cur, product.cost_per_unit)
             THEN \E existing \in select_existing(tx.product_price, product.product_id,
                                                  when) :
                    LET out == insert_product_price(tx.product_price,
                                 product.product_id, product.cost_per_unit, when,
                                 existing)
                    IN  /\ tx' = [tx EXCEPT !.product_price = out.tbl]
                        /\ price_updated' = out.ret
                        /\ sql' = out.sql
                        /\ report' = IF out.ret
                                     THEN (IF cur = NoneDec THEN "New price"
                                           ELSE "Price updated")
                                     ELSE ""
                        /\ prices_inserted' =
                             prices_inserted
                               + (IF out.ret /\ cur = NoneDec THEN 1 ELSE 0)
                        /\ prices_updated' =
                             prices_updated + (IF out.ret /\ cur # NoneDec THEN 1 ELSE 0)
             ELSE /\ report' = "Price unchanged"
                  /\ sql' = "none"
                  /\ UNCHANGED <<tx, price_updated, prices_inserted, prices_updated>>
     /\ prev' = Triple(product, when)
     /\ repeat' = (prev = Triple(product, when))
  /\ before' = tx.product_price
  /\ pc' = "body"
  /\ last' = "reconcile"
  /\ UNCHANGED <<db, conn, bill_id_seq, result, fieldnames, rowsLeft, db0>>
  /\ UNCHANGED <<price_timestamp, update_prices, product, products_updated, seen,
                 skipped, runs, now>>
  /\ UNCHANGED billVars

\* conn.commit() once the loop is over, then conn.close()
CommitProducts ==
  /\ pc = "body" /\ rowsLeft = 0
  /\ db' = tx
  /\ conn' = "closed"
  /\ pc' = "idle"
  /\ result' = "ok"
  /\ last' = "commit"
  /\ UNCHANGED <<tx, bill_id_seq, fieldnames, rowsLeft, db0>>
  /\ UNCHANGED <<productVars, billVars>>

\* what conn.rollback() leaves in the store: the committed tables
rollback_keeps_work(committed, open) == open

rollback(committed, open) == committed

\* a statement of the body (or the commit) raises a store error:
\* conn.rollback(), re-raise, conn.close()
ProductStoreError ==
  /\ pc \in {"body", "price"}
  /\ db' = rollback(db, tx)
  /\ tx' = db'
  /\ conn' = "closed"
  /\ pc' = "idle"
  /\ result' = "StoreError"
  /\ last' = "rollback"
  /\ UNCHANGED <<bill_id_seq, fieldnames, rowsLeft, db0>>
  /\ UNCHANGED <<productVars, billVars>>

ProductNext(inp) ==
  \/ ImportProductBadHeader(inp)
  \/ ImportProductNoRows(inp)
  \/ ImportProductBegin(inp)
  \/ Connect
  \/ ConnectFail
  \/ SearchPathFail
  \/ UpsertRow(inp)
  \/ ReconcilePrice
  \/ CommitProducts
  \/ ProductStoreError

PriceNext == ProductNext(PriceRuns)
UpsertNext == ProductNext(UpsertRuns)
SpecialNext == ProductNext(SpecialRuns)

\* product imports that exercise the price history
Spec == Init /\ [][PriceNext]_vars

\* product imports that exercise the product table
SpecUpsert == Init /\ [][UpsertNext]_vars

\* product imports whose cost cells include "nan"
SpecNaN == Init /\ [][SpecialNext]_vars

SignedNext == ProductNext(SignedRuns)

\* product imports whose cost cells carry a sign
SpecSigned == Init /\ [][SignedNext]_vars

UntimedNext == ProductNext(UntimedRuns) \/ Tick

\* product imports without a price_timestamp, while the clock advances
SpecUntimed == Init /\ [][UntimedNext]_vars

SkipNext == ProductNext(SkipRuns) \/ SkipRow(SkipRuns)

\* product imports of files with rows the reader skips
SpecSkip == Init /\ [][SkipNext]_vars

\* ------------------------------- two import_product_csv runs side by side
\* Each process imports a file of one row for one product; its statements
\* run one at a time on the shared store and see what is committed.  The
\* statements of the two transactions interleave freely: the model counts
\* on no lock but the one the natural key of product_price gives.
RaceRuns ==
  [product_id |-> 1,
   names |-> [p \in Procs |-> IF p = 1 THEN <<"a">> ELSE <<"b">>],
   costs |-> {Fin(5), Fin(7)},
   timestamps |-> {1, 2}]

\* the row a process upserts
RaceProduct(p) ==
  [product_id |-> RaceRuns.product_id, product_name |-> runs[p].product_name,
   source |-> None, unit |-> None]

\* the store with the uncommitted work of process p applied to it
ApplyRun(store, p) ==
  [store EXCEPT
     !.product = IF runs[p].upserted THEN upsert_product(@, RaceProduct(p)) ELSE @,
     !.product_price =
        IF runs[p].op = "insert"
        THEN SqlInsertPrice(@, RaceRuns.product_id, runs[p].cost, runs[p].created_when)
        ELSE IF runs[p].op = "update"
        THEN SqlUpdatePrice(@, RaceRuns.product_id, runs[p].cost, runs[p].created_when)
        ELSE @]

\* the natural key of product_price: a row may be inserted at (pid, ts)
\* when no committed row has that key
NaturalKeyFree(tbl, pid, ts) == CountAt(tbl, pid, ts) = 0

\* another transaction holds an uncommitted write at the key: the
\* statement waits for it to end
KeyLocked(p, ts) ==
  \E q \in Procs \ {p} : runs[q].op # "none" /\ runs[q].created_when = ts

\* what a step of a process leaves alone besides the store and the runs
RaceFrame ==
  /\ UNCHANGED <<tx, conn, bill_id_seq, pc, result, fieldnames, rowsLeft, last, db0>>
  /\ UNCHANGED <<price_timestamp, update_prices, product, current_price,
                 price_updated, report, products_updated, prices_updated,
                 prices_inserted, before, sql, prev, repeat, seen, skipped, now>>
  /\ UNCHANGED billVars

\* read_product_csv returned the one row; get_connection
RaceBegin(p) ==
  /\ runs[p].pc = "idle"
  /\ \E c \in RaceRuns.costs, ts \in RaceRuns.timestamps :
       runs' = [runs EXCEPT ![p] = [@ EXCEPT !.pc = "upsert",
                                             !.product_name = RaceRuns.names[p],
                                             !.cost = c, !.created_when = ts,
                                             !.result = "running"]]
  /\ UNCHANGED db
  /\ RaceFrame

\* upsert_product(conn, product)
RaceUpsert(p) ==
  /\ runs[p].pc = "upsert"
  /\ runs' = [runs EXCEPT ![p] = [@ EXCEPT !.pc = "latest", !.upserted = TRUE]]
  /\ UNCHANGED db
  /\ RaceFrame

\* current_price = get_latest_product_price(conn, product_id), and the gate
RaceLatest(p) ==
  /\ runs[p].pc = "latest"
  /\ \E cur \in get_latest_product_price(db.product_price, RaceRuns.product_id) :
       runs' = [runs EXCEPT ![p] =
                  [@ EXCEPT !.current_price = cur,
                            !.pc = IF import_price_gate(cur, runs[p].cost)
                                   THEN "select" ELSE "commit"]]
  /\ UNCHANGED db
  /\ RaceFrame

\* insert_product_price: the SELECT and existing = cur.fetchone()
RaceSelect(p) ==
  /\ runs[p].pc = "select"
  /\ \E ex \in select_existing(db.product_price, RaceRuns.product_id,
                               runs[p].created_when) :
       runs' = [runs EXCEPT ![p] = [@ EXCEPT !.existing = ex, !.pc = "write"]]
  /\ UNCHANGED db
  /\ RaceFrame

\* insert_product_price: the UPDATE, the INSERT or neither, as existing
\* decides; the statement goes through once no other transaction holds the
\* key and, for the INSERT, the key is free
RaceWrite(p) ==
  /\ runs[p].pc = "write"
  /\ LET out == insert_product_price(db.product_price, RaceRuns.product_id,
                                     runs[p].cost, runs[p].created_when,
                                     runs[p].existing)
     IN  /\ out.sql # "none" => ~KeyLocked(p, runs[p].created_when)
         /\ out.sql = "insert" =>
              NaturalKeyFree(db.product_price, RaceRuns.product_id,
                             runs[p].created_when)
         /\ runs' = [runs EXCEPT ![p] = [@ EXCEPT !.op = out.sql, !.pc = "commit"]]
  /\ UNCHANGED db
  /\ RaceFrame

\* the INSERT meets a committed row with its key: the store raises, the
\* except clause rolls back and re-raises, the run is over
RaceConflict(p) ==
  /\ runs[p].pc = "write" /\ runs[p].existing = NoneDec
  /\ ~KeyLocked(p, runs[p].created_when)
  /\ ~NaturalKeyFree(db.product_price, RaceRuns.product_id, runs[p].created_when)
  /\ db' = rollback(db, ApplyRun(db, p))
  /\ runs' = [runs EXCEPT ![p] = [@ EXCEPT !.pc = "failed", !.upserted = FALSE,
                                           !.result = "StoreError"]]
  /\ RaceFrame

\* conn.commit(): the work of the run becomes the store's
RaceCommit(p) ==
  /\ runs[p].pc = "commit"
  /\ db' = ApplyRun(db, p)
  /\ runs' = [runs EXCEPT ![p] = [@ EXCEPT !.pc = "done", !.upserted = FALSE,
                                           !.op = "none", !.result = "ok"]]
  /\ RaceFrame

RaceNext ==
  \E p \in Procs :
    \/ RaceBegin(p)
    \/ RaceUpsert(p)
    \/ RaceLatest(p)
    \/ RaceSelect(p)
    \/ RaceWrite(p)
    \/ RaceConflict(p)
    \/ RaceCommit(p)

\* two product imports in two processes
SpecRace == Init /\ [][RaceNext]_vars

\* ---------------------------------------------------- the bill CSV reader
RequiredBillCols == {"product_name", "quantity", "product_price", "tax_amount", "total"}

\* h.strip() of a header name: the names a file may carry are the required
\* ones, written plainly or with a blank after the separating comma
StripName(h) ==
  CASE h = " quantity" -> "quantity"
    [] h = " product_price" -> "product_price"
    [] h = " tax_amount" -> "tax_amount"
    [] h = " total" -> "total"
    [] OTHER -> h

\* header = {h.strip() for h in reader.fieldnames}
StripNames(names) == {StripName(h) : h \in names}

bill_header_ok_without_total(names) ==
  names # {} /\ (RequiredBillCols \ {"total"}) \subseteq StripNames(names)

\* read_bill_csv's header check: no header, or a required column missing
\* among the stripped names
BillHeaderOk(names) == names # {} /\ RequiredBillCols \subseteq StripNames(names)

\* read_bill_csv's loop body: every text value stripped, None kept
\* (the keys stay as the header wrote them)
BillRowData(r) == [c \in DOMAIN r |-> IF r[c] = None THEN None ELSE Strip(r[c])]

\* --------------------------------------------------- inputs of bill imports
\* headers that fail the check, and the full header
BadBillHeaders ==
  {{}, RequiredBillCols \ {"total"}, RequiredBillCols \ {"quantity"}}

\* a plain row whose total is not quantity * price; a row with a thousands
\* comma, padding, a blank cell and a missing (None) cell; a row with an
\* infinite quantity and a garbled price
BillRowInputs(header) ==
  {[c \in header |-> r[StripName(c)]] :
     r \in {[product_name |-> <<"b">>, quantity |-> <<"2">>, product_price |-> <<"3">>,
             tax_amount |-> <<"1">>, total |-> <<"5">>],
            [product_name |-> <<"s">>, quantity |-> <<"1", ",", "0">>,
             product_price |-> <<" ", "4">>, tax_amount |-> <<>>, total |-> None],
            [product_name |-> <<"m">>, quantity |-> <<"i", "n", "f">>,
             product_price |-> <<"a">>, tax_amount |-> <<"1">>, total |-> <<"5">>]}}

BillRuns ==
  [headers |-> BadBillHeaders \cup {RequiredBillCols},
   shipping |-> {<<"4">>}]

\* a header whose last two names follow a comma and a blank
PaddedBillHeader ==
  {"product_name", "quantity", "product_price", " tax_amount", " total"}

\* files written with that header, and one that lacks the total column
PaddedBillRuns ==
  [headers |-> {PaddedBillHeader, PaddedBillHeader \ {" total"}},
   shipping |-> {<<"4">>}]

\* the arguments main() passes besides the file and the shipping amount
BillArgs ==
  [csv_path |-> <<"f">>, vendor_name |-> <<"v">>, notes |-> None,
   currency |-> <<"U", "S", "D">>, bill_number |-> <<"7">>, bill_date |-> None,
   source |-> None]

RECURSIVE SeqsUpTo(_, _)
SeqsUpTo(S, n) ==
  IF n = 0 THEN {<<>>}
  ELSE SeqsUpTo(S, n - 1) \cup {Append(q, x) : q \in SeqsUpTo(S, n - 1), x \in S}

\* ------------------------------------------------- import_bill's arithmetic
\* the amount a row adds to subtotal: quantity * unit_price
line_amount(quantity, unit_price, line_total) == DecMul(quantity, unit_price)

\* the loop over items: subtotal, tax_sum and prepared_items after the rows
\* of its, from the accumulators acc; raised once an operation raised
RECURSIVE prepare_items(_, _)
prepare_items(its, acc) ==
  IF its = <<>> \/ acc.raised THEN acc
  ELSE LET r == Head(its)
           quantity == parse_decimal(RowGet(r, "quantity"), Fin(0))
           unit_price == parse_decimal(RowGet(r, "product_price"), Fin(0))
           tax_amount == parse_decimal(RowGet(r, "tax_amount"), Fin(0))
           line_total == parse_decimal(RowGet(r, "total"), Fin(0))
           amount == line_amount(quantity, unit_price, line_total)
           sub == IF amount = Raised THEN Raised ELSE DecAdd(acc.subtotal, amount)
           tax == DecAdd(acc.tax_sum, tax_amount)
       IN  IF sub = Raised \/ tax = Raised
           THEN [acc EXCEPT !.raised = TRUE]
           ELSE prepare_items(Tail(its),
                  [subtotal |-> sub, tax_sum |-> tax, raised |-> FALSE,
                   prepared |-> Append(acc.prepared,
                     [product_name |-> RowGet(r, "product_name"),
                      quantity |-> quantity, unit_price |-> unit_price,
                      line_total |-> line_total])])

NoItems == [subtotal |-> Fin(0), tax_sum |-> Fin(0), raised |-> FALSE, prepared |-> <<>>]

\* total_amount = subtotal + tax_sum + shipping_amount
grand_total(sub, tax, shipping) ==
  IF DecAdd(sub, tax) = Raised THEN Raised ELSE DecAdd(DecAdd(sub, tax), shipping)

\* the row of the INSERT INTO bill
BillRow(id) ==
  [bill_id |-> id, bill_number |-> BillArgs.bill_number,
   vendor_name |-> BillArgs.vendor_name,
   source |-> IF BillArgs.source # None /\ BillArgs.source # <<>>
              THEN BillArgs.source ELSE BillArgs.csv_path,
   bill_date |-> BillArgs.bill_date, currency |-> BillArgs.currency,
   subtotal_amount |-> subtotal, tax_amount |-> tax_sum,
   shipping_amount |-> shipping_amount, total_amount |-> total_amount,
   notes |-> BillArgs.notes]

\* INSERT INTO bill: the table with the new row
insert_bill_replacing_number(tbl, row) ==
  {b \in tbl : b.bill_number # row.bill_number} \cup {row}

insert_bill(tbl, row) == tbl \cup {row}

\* the row of the INSERT INTO bill_item
bill_item_row_without_parent(id, it) ==
  [bill_id |-> id + 1, product_id |-> None, product_name |-> it.product_name,
   quantity |-> it.quantity, unit |-> None, unit_price |-> it.unit_price,
   line_total |-> it.line_total]

BillItemRow(id, it) ==
  [bill_id |-> id, product_id |-> None, product_name |-> it.product_name,
   quantity |-> it.quantity, unit |-> None, unit_price |-> it.unit_price,
   line_total |-> it.line_total]

\* --------------------------------------------------- import_bill, by steps
\* read_bill_csv raises ValueError on the header: nothing else happens
ImportBillBadHeader(inp) ==
  /\ pc = "idle"
  /\ \E h \in inp.headers : ~BillHeaderOk(h) /\ fieldnames' = h
  /\ result' = "ValueError"
  /\ last' = "read_bill_csv"
  /\ db0' = db
  /\ UNCHANGED <<db, tx, conn, bill_id_seq, pc, rowsLeft>>
  /\ UNCHANGED <<productVars, billVars>>

\* read_bill_csv returns the rows; main() has parsed the shipping amount
ImportBillBegin(inp) ==
  /\ pc = "idle"
  /\ bill_id_seq < MaxBills
  /\ \E h \in inp.headers, ship \in inp.shipping :
       /\ BillHeaderOk(h)
       /\ fieldnames' = h
       /\ shipping_amount' = parse_decimal(ship, Fin(0))
       /\ \E raw \in SeqsUpTo(BillRowInputs(h), MaxItems) :
            items' = [i \in 1..Len(raw) |-> BillRowData(raw[i])]
  /\ pc' = "prepare"
  /\ result' = "running"
  /\ last' = "read_bill_csv"
  /\ db0' = db
  /\ prepared_items' = <<>> /\ subtotal' = Fin(0) /\ tax_sum' = Fin(0)
  /\ total_amount' = Fin(0) /\ bill_id' = 0
  /\ UNCHANGED <<db, tx, conn, bill_id_seq, rowsLeft>>
  /\ UNCHANGED productVars

\* the loop that prepares the line items, then total_amount
PrepareItems ==
  /\ pc = "prepare"
  /\ LET acc == prepare_items(items, NoItems)
         tot == grand_total(acc.subtotal, acc.tax_sum, shipping_amount)
     IN  /\ ~acc.raised /\ tot # Raised
         /\ prepared_items' = acc.prepared
         /\ subtotal' = acc.subtotal
         /\ tax_sum' = acc.tax_sum
         /\ total_amount' = tot
  /\ pc' = "connect_bill"
  /\ last' = "prepare"
  /\ UNCHANGED <<db, tx, conn, bill_id_seq, result, fieldnames, rowsLeft, db0>>
  /\ UNCHANGED <<productVars, items, shipping_amount, bill_id>>

\* an operation of that loop raises decimal.InvalidOperation, which nothing
\* catches: import_bill ends before get_connection
PrepareRaises ==
  /\ pc = "prepare"
  /\ LET acc == prepare_items(items, NoItems)
     IN  acc.raised \/ grand_total(acc.subtotal, acc.tax_sum, shipping_amount) = Raised
  /\ pc' = "idle"
  /\ result' = "InvalidOperation"
  /\ last' = "prepare"
  /\ UNCHANGED <<db, tx, conn, bill_id_seq, fieldnames, rowsLeft, db0>>
  /\ UNCHANGED <<productVars, billVars>>

BillConnect ==
  /\ pc = "connect_bill"
  /\ conn' = "open"
  /\ tx' = db
  /\ pc' = "header"
  /\ last' = "get_connection"
  /\ UNCHANGED <<db, bill_id_seq, result, fieldnames, rowsLeft, db0>>
  /\ UNCHANGED <<productVars, billVars>>

BillConnectFail ==
  /\ pc = "connect_bill"
  /\ pc' = "idle"
  /\ result' = "StoreError"
  /\ last' = "get_connection"
  /\ UNCHANGED <<db, tx, conn, bill_id_seq, fieldnames, rowsLeft, db0>>
  /\ UNCHANGED <<productVars, billVars>>

BillSearchPathFail ==
  /\ pc = "connect_bill"
  /\ conn' = "open"
  /\ pc' = "idle"
  /\ result' = "StoreError"
  /\ last' = "set_search_path"
  /\ UNCHANGED <<db, tx, bill_id_seq, fieldnames, rowsLeft, db0>>
  /\ UNCHANGED <<productVars, billVars>>

\* INSERT INTO bill ... RETURNING bill_id; bill_id = cur.fetchone()[0]
InsertBill ==
  /\ pc = "header"
  /\ bill_id_seq' = bill_id_seq + 1
  /\ bill_id' = bill_id_seq'
  /\ tx' = [tx EXCEPT !.bill = insert_bill(@, BillRow(bill_id'))]
  /\ rowsLeft' = Len(prepared_items)
  /\ pc' = "items"
  /\ last' = "insert_bill"
  /\ UNCHANGED <<db, conn, result, fieldnames, db0>>
  /\ UNCHANGED <<productVars, items, shipping_amount, prepared_items, subtotal,
                 tax_sum, total_amount>>

\* for it in prepared_items: INSERT INTO bill_item
InsertBillItem ==
  /\ pc = "items" /\ rowsLeft > 0
  /\ LET it == prepared_items[Len(prepared_items) - rowsLeft + 1]
     IN  tx' = [tx EXCEPT !.bill_item = @ (+) SetToBag({BillItemRow(bill_id, it)})]
  /\ rowsLeft' = rowsLeft - 1
  /\ last' = "insert_bill_item"
  /\ UNCHANGED <<db, conn, bill_id_seq, pc, result, fieldnames, db0>>
  /\ UNCHANGED <<productVars, billVars>>

\* the with-block ends normally: commit; then conn.close()
CommitBill ==
  /\ pc = "items" /\ rowsLeft = 0
  /\ db' = tx
  /\ conn' = "closed"
  /\ pc' = "idle"
  /\ result' = "ok"
  /\ last' = "commit_bill"
  /\ UNCHANGED <<tx, bill_id_seq, fieldnames, rowsLeft, db0>>
  /\ UNCHANGED <<productVars, billVars>>

\* what the with-block leaves in the store when its body raised: rollback
with_conn_error_commits(committed, open) == open

with_conn_error(committed, open) == committed

\* the header insert, an item insert or the commit raises a store error:
\* the with-block rolls back, conn.close(), the error leaves import_bill
BillStoreError ==
  /\ pc \in {"header", "items"}
  /\ db' = with_conn_error(db, tx)
  /\ tx' = db'
  /\ conn' = "closed"
  /\ pc' = "idle"
  /\ result' = "StoreError"
  /\ last' = "rollback_bill"
  /\ UNCHANGED <<bill_id_seq, fieldnames, rowsLeft, db0>>
  /\ UNCHANGED <<productVars, billVars>>

BillNext ==
  \/ ImportBillBadHeader(BillRuns)
  \/ ImportBillBegin(BillRuns)
  \/ PrepareItems
  \/ PrepareRaises
  \/ BillConnect
  \/ BillConnectFail
  \/ BillSearchPathFail
  \/ InsertBill
  \/ InsertBillItem
  \/ CommitBill
  \/ BillStoreError
  \/ ImportProductBadHeader(PriceRuns)

\* bill imports, and product imports whose header fails the check
SpecBill == Init /\ [][BillNext]_vars

\* a store in which product imports have committed a product and two
\* prices of it
LedgerStore ==
  [product |-> {[product_id |-> 1, product_name |-> <<"a">>, source |-> None,
                 unit |-> <<"k">>]},
   product_price |-> SetToBag({PriceRow(1, Fin(5), 1), PriceRow(1, Fin(7), 2)}),
   bill |-> {}, bill_item |-> EmptyBag]

\* no run in progress, over that store
LedgerInit ==
  /\ db = LedgerStore /\ tx = LedgerStore /\ conn = "closed" /\ bill_id_seq = 0
  /\ pc = "idle" /\ result = "ok" /\ fieldnames = FullProductHeader /\ rowsLeft = 0
  /\ last = "commit" /\ db0 = EmptyStore
  /\ price_timestamp = 0 /\ update_prices = TRUE /\ product = NoProduct
  /\ current_price = NoneDec /\ price_updated = FALSE /\ report = ""
  /\ products_updated = 0 /\ prices_updated = 0 /\ prices_inserted = 0
  /\ before = EmptyBag /\ sql = "none" /\ prev = NoTriple /\ repeat = FALSE
  /\ seen = {} /\ skipped = FALSE /\ runs = [p \in Procs |-> NoRun]
  /\ now = 1
  /\ items = <<>> /\ shipping_amount = Fin(0) /\ prepared_items = <<>>
  /\ subtotal = Fin(0) /\ tax_sum = Fin(0) /\ total_amount = Fin(0) /\ bill_id = 0

\* bill imports into a store that holds products and prices
SpecLedger == LedgerInit /\ [][BillNext]_vars

PaddedBillNext ==
  \/ ImportBillBadHeader(PaddedBillRuns)
  \/ ImportBillBegin(PaddedBillRuns)
  \/ PrepareItems
  \/ PrepareRaises
  \/ BillConnect
  \/ BillConnectFail
  \/ BillSearchPathFail
  \/ InsertBill
  \/ InsertBillItem
  \/ CommitBill
  \/ BillStoreError

\* bill imports of files whose header pads some names
SpecBillPadded == Init /\ [][PaddedBillNext]_vars

\* ----------------------------------------------------------------- claims
\* the one cost of the product's rows with the greatest timestamp
NewestCosts(tbl, pid) ==
  {r.cost_per_unit : r \in {x \in PriceRows(tbl, pid) :
     \A q \in PriceRows(tbl, pid) : q.created_when <= x.created_when}}

Reconciled == last = "reconcile"
Pid == product.product_id
Cost == product.cost_per_unit

\* C1: after any sequence of product import runs, committed or still in
\* its transaction, the price history holds at most one row per
\* (product identifier, timestamp).
C1_NaturalKey ==
  \A tbl \in {db.product_price, tx.product_price} :
    \A r \in BagToSet(tbl) : CountAt(tbl, r.product_id, r.created_when) <= 1

\* a product repeated at one timestamp was corrected in place while it has
\* a second observation at the other timestamp
C1_Witness ==
  /\ Reconciled /\ sql = "update"
  /\ HistoryLength(tx.product_price, Pid) = 2

\* C2: reconciling a (product, timestamp) that has an observation with a
\* different cost leaves the observed cost at that timestamp, keeps the
\* history length and reports "updated", whatever else the history holds.
C2_CorrectsInPlace ==
  (Reconciled /\ \E r \in PriceRowsAt(before, Pid, price_timestamp) :
                   r.cost_per_unit # Cost)
    => /\ \A r \in PriceRowsAt(tx.product_price, Pid, price_timestamp) :
            r.cost_per_unit = Cost
       /\ HistoryLength(tx.product_price, Pid) = HistoryLength(before, Pid)
       /\ report = "Price updated"

\* what a reconciliation of (pid, ts, cost) leaves behind: the triple is
\* in the history, or the cost is the product's latest price
ReconciledState(tbl, pid, ts, cost) ==
  PriceRow(pid, cost, ts) \in BagToSet(tbl) \/ cost \in NewestCosts(tbl, pid)

\* the row was reported unchanged: "Price unchanged" was printed, or
\* insert_product_price returned False and no line was printed
ReportedUnchanged ==
  report = "Price unchanged" \/ (report = "" /\ ~price_updated)

\* C3: reconciling a triple a second time writes nothing, reports
\* "unchanged" and leaves the history as the first reconciliation left it;
\* every reconciliation leaves a state in which repeating it does so.
C3_Idempotent ==
  /\ Reconciled => ReconciledState(tx.product_price, Pid, price_timestamp, Cost)
  /\ (Reconciled /\ (repeat \/ ReconciledState(before, Pid, price_timestamp, Cost)))
       => /\ sql = "none"
          /\ tx.product_price = before
          /\ ReportedUnchanged

\* C4: reconciling at a timestamp where the product has no observation,
\* with a cost other than its latest price, adds exactly one row, keeps
\* the earlier rows, and the latest-price query returns the cost at the
\* greatest timestamp.
C4_Inserts ==
  (/\ Reconciled
   /\ CountAt(before, Pid, price_timestamp) = 0
   /\ Cost \notin NewestCosts(before, Pid))
    => /\ HistoryLength(tx.product_price, Pid) = HistoryLength(before, Pid) + 1
       /\ tx.product_price = before (+) SetToBag({PriceRow(Pid, Cost, price_timestamp)})
       /\ get_latest_product_price(tx.product_price, Pid)
            = NewestCosts(tx.product_price, Pid)
       /\ Cardinality(NewestCosts(tx.product_price, Pid)) = 1

\* an insertion at the earlier timestamp under a later observation
C4_Witness ==
  /\ Reconciled /\ sql = "insert"
  /\ \E r \in PriceRows(before, Pid) : r.created_when > price_timestamp
  /\ Cost \notin NewestCosts(tx.product_price, Pid)

\* C7: a store error during a product import run leaves the committed
\* store as it was when the run began and is raised to the caller.
C7_RollsBack ==
  /\ (last = "rollback" => db = db0 /\ tx = db /\ result = "StoreError"
                           /\ pc = "idle" /\ conn = "closed")
  /\ (result \in {"running", "StoreError"} => db = db0)

\* the error struck after an upsert and a price insertion of the run
C7_Witness ==
  /\ last = "rollback" /\ products_updated >= 1 /\ sql = "insert"
  /\ before # EmptyBag

\* C9: after a committed run there is one Product per identifier, each
\* identifier of the run carries the name, source and unit of its last row,
\* and the other Products are as before the run.
C9_LastWriterWins ==
  /\ \A r1, r2 \in db.product : r1.product_id = r2.product_id => r1 = r2
  /\ (last = "commit" =>
        /\ \A q \in seen :
             {r \in db.product : r.product_id = q.product_id}
               = {[product_id |-> q.product_id, product_name |-> q.product_name,
                   source |-> q.source, unit |-> q.unit]}
        /\ \A r \in db.product \cup db0.product :
             (\A q \in seen : q.product_id # r.product_id)
               => (r \in db.product /\ r \in db0.product))

\* a committed run renamed an existing product, created none for the other
\* identifier, and left that other product alone
C9_Witness ==
  /\ last = "commit"
  /\ \E q \in seen : \E r \in db0.product :
       /\ r.product_id = q.product_id
       /\ r.product_name # q.product_name
       /\ r.source # q.source
  /\ \E r \in db0.product : \A q \in seen : q.product_id # r.product_id

\* the text a file's row supplies in the column named c, whatever blanks
\* the header put around the name
Supplied(r, c) ==
  IF \E k \in DOMAIN r : StripName(k) = StripName(c)
  THEN r[CHOOSE k \in DOMAIN r : StripName(k) = StripName(c)]
  ELSE None

\* the cell of a bill row as a Decimal
Cell(r, c) == parse_decimal(Supplied(r, c), Fin(0))

\* the sum over the input rows of quantity * unit price
RECURSIVE SubtotalOf(_)
SubtotalOf(its) ==
  IF its = <<>> THEN Fin(0)
  ELSE LET r == its[Len(its)]
       IN  DecAdd(SubtotalOf(SubSeq(its, 1, Len(its) - 1)),
                  DecMul(Cell(r, "quantity"), Cell(r, "product_price")))

\* the sum over the input rows of the tax amounts
RECURSIVE TaxOf(_)
TaxOf(its) ==
  IF its = <<>> THEN Fin(0)
  ELSE DecAdd(TaxOf(SubSeq(its, 1, Len(its) - 1)), Cell(its[Len(its)], "tax_amount"))

\* C5: every persisted Bill has total = subtotal + tax + shipping, and the
\* Bill a committed import wrote has subtotal = the rows' sum of quantity *
\* unit price, tax = the rows' sum of tax amounts and the caller's shipping,
\* the rows' cells being those the file supplies under each column.
C5_BillTotals ==
  /\ \A b \in db.bill \cup tx.bill :
       b.total_amount
         = DecAdd(DecAdd(b.subtotal_amount, b.tax_amount), b.shipping_amount)
  /\ (last = "commit_bill" =>
        /\ Cardinality({b \in db.bill : b.bill_id = bill_id}) = 1
        /\ \A b \in db.bill :
             b.bill_id = bill_id =>
               /\ b.subtotal_amount = SubtotalOf(items)
               /\ b.tax_amount = TaxOf(items)
               /\ b.shipping_amount = shipping_amount)

\* C6: a store error at the header insert, at any item insert or at the
\* commit leaves no row of that bill and the store as it was, and reaches
\* the caller.
C6_BillRollsBack ==
  /\ (last = "rollback_bill" =>
        /\ db = db0 /\ tx = db
        /\ \A b \in db.bill : b.bill_id # bill_id
        /\ \A it \in BagToSet(db.bill_item) : it.bill_id # bill_id
        /\ result = "StoreError" /\ pc = "idle" /\ conn = "closed")
  /\ (result \in {"running", "StoreError"} => db = db0)

\* the error struck at the second item, after the header and the first item
C6_Witness ==
  /\ last = "rollback_bill" /\ bill_id > 0
  /\ Len(prepared_items) = 2 /\ rowsLeft = 1

\* C8: a CSV without a header or without a required column ends the run
\* with ValueError at the reader: no row is processed, nothing is opened
\* or written; whatever runs past the reader has every required column.
C8_HeaderAborts ==
  /\ (last = "read_bill_csv" /\ ~(RequiredBillCols \subseteq StripNames(fieldnames)))
       => (result = "ValueError" /\ pc = "idle" /\ db = db0 /\ tx = db)
  /\ (last = "read_product_csv" /\ ~(RequiredProductCols \subseteq fieldnames))
       => (result = "ValueError" /\ pc = "idle" /\ db = db0 /\ tx = db)
  /\ (pc \in {"prepare", "connect_bill", "header", "items"})
       => RequiredBillCols \subseteq StripNames(fieldnames)
  /\ (pc \in {"connect", "body", "price"})
       => RequiredProductCols \subseteq fieldnames

\* a bill CSV without the total column was refused over a store that
\* already holds a bill
C8_Witness ==
  /\ last = "read_bill_csv" /\ result = "ValueError"
  /\ fieldnames = RequiredBillCols \ {"total"}
  /\ db.bill # {}

\* what the claim says of the BillItem of an input row
ExpectedItem(id, r) ==
  [bill_id |-> id, product_id |-> None, quantity |-> Cell(r, "quantity"),
   unit_price |-> Cell(r, "product_price"), line_total |-> Cell(r, "total")]

\* those columns of a persisted BillItem
ClaimedColumns(x) ==
  [bill_id |-> x.bill_id, product_id |-> x.product_id, quantity |-> x.quantity,
   unit_price |-> x.unit_price, line_total |-> x.line_total]

\* C11: a committed bill import has persisted exactly one BillItem per
\* input row, each with the row's quantity and unit price, the line total
\* the row supplies (not quantity * unit price) and a null product
\* identifier.
C11_ItemPerRow ==
  last = "commit_bill" =>
    /\ SumCopies(db.bill_item, {x \in BagToSet(db.bill_item) : x.bill_id = bill_id})
         = Len(items)
    /\ \A i \in 1..Len(items) :
         LET e == ExpectedItem(bill_id, items[i])
         IN  SumCopies(db.bill_item,
                       {x \in BagToSet(db.bill_item) : ClaimedColumns(x) = e})
               = Cardinality({j \in 1..Len(items) : ExpectedItem(bill_id, items[j]) = e})

\* C12: a run that acquired a connection has closed it by the time it
\* returns or fails: after a commit, after a rollback, after any error.
C12_AlwaysReleased ==
  /\ pc = "idle" => conn # "open"
  /\ last \in {"commit", "rollback", "commit_bill", "rollback_bill"} => conn = "closed"

\* the identifiers int() accepts among the product_id cells of the files
ValidIds(inp) == {IntOf(c) : c \in {x \in inp.cells.product_id : IntValid(CleanCell(x))}}

\* C13: a row whose product_id is not an integer is skipped and the run
\* goes on: no Product ever carries an identifier other than the valid
\* rows', and a run that skipped rows commits every valid row's upsert and
\* reconciliation.
C13_SkipNotFatal ==
  /\ \A t \in {db, tx} :
       /\ \A p \in t.product : p.product_id \in ValidIds(SkipRuns)
       /\ \A r \in BagToSet(t.product_price) : r.product_id \in ValidIds(SkipRuns)
  /\ last = "skip" => (result = "running" /\ pc = "body" /\ conn = "open")
  /\ (last = "commit" /\ skipped) =>
       /\ result = "ok" /\ rowsLeft = 0 /\ products_updated >= 1
       /\ \A q \in seen :
            /\ [product_id |-> q.product_id, product_name |-> q.product_name,
                source |-> q.source, unit |-> q.unit] \in db.product
            /\ q.cost_per_unit # NoneDec =>
                 ReconciledState(db.product_price, q.product_id, price_timestamp,
                                 q.cost_per_unit)

\* a run that skipped a row committed two products, one with a price
C13_Witness ==
  /\ last = "commit" /\ skipped /\ products_updated = 2
  /\ Cardinality(seen) = 2
  /\ \E q \in seen : q.cost_per_unit # NoneDec
  /\ Cardinality(db.product) > Cardinality(db0.product)

\* C14: every PriceObservation in the store, committed or in the open
\* transaction, has a unit cost that is a number and is not negative.
C14_NonNegativeCost ==
  \A t \in {db, tx} : \A r \in BagToSet(t.product_price) :
    r.cost_per_unit.k = "fin" /\ r.cost_per_unit.v >= 0

\* C15: what a reconciliation writes depends only on the record at exactly
\* (product, timestamp): none -> one row inserted, whatever the product's
\* latest price is; one with another cost -> corrected; one with the same
\* cost -> nothing.
C15_ExactTimestampDecides ==
  Reconciled =>
    /\ CountAt(before, Pid, price_timestamp) = 0
         => /\ sql = "insert"
            /\ tx.product_price
                 = before (+) SetToBag({PriceRow(Pid, Cost, price_timestamp)})
    /\ (\E r \in PriceRowsAt(before, Pid, price_timestamp) : r.cost_per_unit # Cost)
         => sql = "update"
    /\ (\E r \in PriceRowsAt(before, Pid, price_timestamp) : r.cost_per_unit = Cost)
         => (sql = "none" /\ tx.product_price = before)

\* C16: the line printed for a reconciled price names the write performed
\* ("New price" for an INSERT, "Price updated" for an UPDATE, "Price
\* unchanged" for none), and the summary's inserted count is the number of
\* rows the run added to the price history.
C16_ReportMatchesWrite ==
  /\ Reconciled =>
       /\ report = "New price" <=> sql = "insert"
       /\ report = "Price updated" <=> sql = "update"
       /\ report = "Price unchanged" <=> sql = "none"
  /\ last = "commit" =>
       prices_inserted
         = BagCardinality(db.product_price) - BagCardinality(db0.product_price)

\* the first k prepared items as the bill_item rows of bill id
RECURSIVE ItemRows(_, _, _)
ItemRows(id, its, k) ==
  IF k = 0 THEN EmptyBag
  ELSE ItemRows(id, its, k - 1)
         (+) SetToBag({[bill_id |-> id, product_id |-> None,
                        product_name |-> its[k].product_name,
                        quantity |-> its[k].quantity, unit |-> None,
                        unit_price |-> its[k].unit_price,
                        line_total |-> its[k].line_total]})

\* the bill_item rows of bill id, with their copies
ItemsOf(tbl, id) ==
  [x \in {y \in BagToSet(tbl) : y.bill_id = id} |-> tbl[x]]

\* C17: no BillItem exists, committed or in the transaction, without its
\* Bill; while the items are inserted the header is already there with the
\* identifier the store returned, and the items inserted so far are the
\* first rows of the input, in order, all under that identifier.
C17_ParentFirst ==
  /\ \A t \in {db, tx} :
       \A it \in BagToSet(t.bill_item) : \E b \in t.bill : b.bill_id = it.bill_id
  /\ pc = "header" => tx.bill_item = db.bill_item
  /\ pc = "items" =>
       /\ bill_id = bill_id_seq /\ \E b \in tx.bill : b.bill_id = bill_id
       /\ \A b \in db.bill : b.bill_id # bill_id
       /\ ItemsOf(tx.bill_item, bill_id)
            = ItemRows(bill_id, prepared_items, Len(prepared_items) - rowsLeft)
       /\ tx.bill_item = db.bill_item (+) ItemsOf(tx.bill_item, bill_id)

\* the second bill of the store has its header and the first of its two
\* different items in the transaction
C17_Witness ==
  /\ pc = "items" /\ rowsLeft = 1 /\ Len(prepared_items) = 2
  /\ prepared_items[1] # prepared_items[2]
  /\ db.bill # {} /\ db.bill_item # EmptyBag

\* C20: a committed bill import adds one Bill with an identifier no other
\* Bill has, and its items; every Bill, BillItem, Product and
\* PriceObservation of the store before the run is there unchanged.
C20_AppendOnly ==
  last = "commit_bill" =>
    /\ db.product = db0.product /\ db.product_price = db0.product_price
    /\ db0.bill \subseteq db.bill
    /\ Cardinality(db.bill) = Cardinality(db0.bill) + 1
    /\ \A b \in db.bill \ db0.bill :
         b.bill_id = bill_id /\ \A b0 \in db0.bill : b0.bill_id # b.bill_id
    /\ db.bill_item = db0.bill_item (+) ItemsOf(db.bill_item, bill_id)
    /\ BagCardinality(ItemsOf(db.bill_item, bill_id)) = Len(prepared_items)
    /\ ItemsOf(db0.bill_item, bill_id) = EmptyBag

\* the same file was imported a second time: two Bills that differ in
\* their identifier only, over the products and prices of the store
C20_Witness ==
  /\ last = "commit_bill" /\ db.product # {} /\ db.product_price # EmptyBag
  /\ Len(prepared_items) = 2
  /\ \E b1, b2 \in db.bill :
       /\ b1.bill_id # b2.bill_id
       /\ [b1 EXCEPT !.bill_id = 0] = [b2 EXCEPT !.bill_id = 0]
       /\ ItemsOf(db.bill_item, b1.bill_id) # EmptyBag
       /\ ItemsOf(db.bill_item, b2.bill_id) # EmptyBag

\* C18: when two runs reconcile one (product, timestamp) side by side, the
\* committed history never holds two rows with one key; the run whose
\* INSERT meets the other's row fails with nothing of it in the store, and
\* does not try again.
C18_RaceKeepsKey ==
  /\ [](\A r \in BagToSet(db.product_price) :
          CountAt(db.product_price, r.product_id, r.created_when) <= 1)
  /\ [][\A p \in Procs :
          (runs[p].pc # "failed" /\ runs'[p].pc = "failed")
            => (db' = db /\ runs'[p].result = "StoreError")]_vars
  /\ [][\A p \in Procs : runs[p].pc = "failed" => runs'[p] = runs[p]]_vars

\* both runs found no record at the key and went for the INSERT; one
\* committed, the other met its row and failed, and the store holds the
\* committed run's product and cost only
C18_Witness ==
  \E p, q \in Procs :
    /\ runs[p].pc = "done" /\ runs[q].pc = "failed"
    /\ runs[p].existing = NoneDec /\ runs[q].existing = NoneDec
    /\ runs[p].created_when = runs[q].created_when
    /\ runs[p].cost # runs[q].cost
    /\ BagToSet(db.product_price)
         = {PriceRow(RaceRuns.product_id, runs[p].cost, runs[p].created_when)}
    /\ \A x \in db.product : x.product_name = runs[p].product_name

\* the price rows the running (or last) import has written
WrittenRows ==
  {r \in BagToSet(tx.product_price) :
     CopiesIn(r, tx.product_price) > CopiesIn(r, db0.product_price)}

\* C19: in a run that was given no price timestamp, all the price rows the
\* run writes carry one timestamp, so a product repeated in the file gains
\* at most one history point.
C19_OneTimestampPerRun ==
  price_timestamp = NoTimestamp =>
    /\ \A r1, r2 \in WrittenRows : r1.created_when = r2.created_when
    /\ \A r \in WrittenRows :
         HistoryLength(tx.product_price, r.product_id)
           <= HistoryLength(db0.product_price, r.product_id) + 1

\* C10: the decimal normalizer never raises, and no numeric cell, however
\* malformed, aborts a bill import.
C10_NeverAborts ==
  /\ \A i \in 1..Len(items) : \A c \in DOMAIN items[i] : Cell(items[i], c) # Raised
  /\ result # "InvalidOperation"

====
